---- MODULE Spec2Model ----
(***************************************************************************)
(* Timeslot signup / cancel / switch workflow of the gym application.      *)
(*                                                                         *)
(* The store is a relational database used at READ COMMITTED with row      *)
(* locks (SELECT ... FOR UPDATE): a statement sees the rows committed when *)
(* it starts plus the writes of its own transaction; a transaction's       *)
(* writes become visible to the others at its commit; a locking read that  *)
(* finds its row locked waits for the holder, and gets no row when the     *)
(* holder committed a delete of it; an insert that collides with another   *)
(* transaction's uncommitted insert on a unique index waits for it.        *)
(*                                                                         *)
(* Times are minutes counted from midnight of the model's "today";         *)
(* slot dates are day numbers counted from today (0 = today).              *)
(***************************************************************************)
EXTENDS Integers, Sequences, FiniteSets, TLC

\* ------------------------------------------------------------------ bounds
\* number of requests started in one behaviour
MaxStarted == 3
\* largest capacity an administrator sets on a daily timeslot
MaxCap == 1
\* number of administrator updates of a daily timeslot in one behaviour
MaxAdminOps == 1

\* number of payments recorded in one behaviour of the payment ledger
MaxPayments == 2

\* number of base templates that exist at one time
MaxBases == 2

\* number of changes made to the base templates in one behaviour
MaxBaseOps == 3

\* ------------------------------------------------------------- the universe
Users == {"u1", "u2"}
Slots == {"A", "B"}
\* the requests that can be in flight together
Reqs == {1, 2}
\* the two entry points of a transition: TimeslotService.execute and
\* views.selector
Entries == {"execute", "selector"}

None == "None"

Date(y, m, d) == [y |-> y, m |-> m, d |-> d]

\* the daily timeslots of the gym: their date and start time do not change;
\* N has no start time (base_hours.publish_for_day copies none); T is a
\* slot of the next day
DailyRows ==
    [A |-> [slot_date |-> 0, has_time |-> TRUE, start_time |-> 420],
     B |-> [slot_date |-> 0, has_time |-> TRUE, start_time |-> 480],
     N |-> [slot_date |-> 0, has_time |-> FALSE, start_time |-> 0],
     T |-> [slot_date |-> 1, has_time |-> TRUE, start_time |-> 420]]

\* the instants the clock takes: two hours, one hour and half an hour
\* before the start of slot A, and its start
FirstInstant == DailyRows["A"].start_time - 120
Instants == {DailyRows["A"].start_time - d : d \in {120, 60, 30, 0}}

\* the calendar dates the behaviour's "today" is drawn from
Todays == {Date(2024, 1, 10), Date(2024, 3, 15)}
\* the (year, month) period an administrator enters a payment for: the
\* month in which the period that holds day t begins
PayMonth(t) == IF t.m = 1 THEN <<2023, 12>> ELSE <<2024, 3>>
\* GymUser.join_date.day of each member
JoinDays == [u1 |-> 15, u2 |-> 31]

\* ---------------------------------------------------------------- calendar
IsLeap(y) == (y % 4 = 0 /\ y % 100 # 0) \/ y % 400 = 0

monthrange(y, m) ==
    IF m = 2 THEN (IF IsLeap(y) THEN 29 ELSE 28)
    ELSE IF m \in {4, 6, 9, 11} THEN 30 ELSE 31

Min(a, b) == IF a <= b THEN a ELSE b

DateLE(a, b) ==
    \/ a.y < b.y
    \/ a.y = b.y /\ a.m < b.m
    \/ a.y = b.y /\ a.m = b.m /\ a.d <= b.d

\* date.replace(day=d): raises ValueError when the month has no such day
ReplaceDayRaises(dt, d) == d < 1 \/ d > monthrange(dt.y, dt.m)
ReplaceDay(dt, d) == Date(dt.y, dt.m, d)

\* dt + relativedelta(months=1): the day is clamped to the month's last day
PlusMonth(dt) ==
    LET ny == IF dt.m = 12 THEN dt.y + 1 ELSE dt.y
        nm == IF dt.m = 12 THEN 1 ELSE dt.m + 1
    IN Date(ny, nm, Min(dt.d, monthrange(ny, nm)))

\* dt - relativedelta(months=1)
MinusMonth(dt) ==
    LET py == IF dt.m = 1 THEN dt.y - 1 ELSE dt.y
        pm == IF dt.m = 1 THEN 12 ELSE dt.m - 1
    IN Date(py, pm, Min(dt.d, monthrange(py, pm)))

\* the period begins in the previous month on the anchor day itself too
current_period_for_until(base_day, ref) ==
    LET prev == MinusMonth(ReplaceDay(ref, 1))
        before == ref.d <= base_day
        raises == IF before THEN ReplaceDayRaises(prev, base_day)
                  ELSE ReplaceDayRaises(ref, base_day)
        start == IF before THEN ReplaceDay(prev, base_day)
                 ELSE ReplaceDay(ref, base_day)
    IN IF raises
       THEN [raised |-> TRUE, start |-> ref, end |-> ref]
       ELSE [raised |-> FALSE, start |-> start, end |-> PlusMonth(start)]

\* current_period_for(user, ref): [raised, start, end]; raised when a
\* date.replace(day=base_day) raises ValueError
current_period_for(base_day, ref) ==
    LET prev == MinusMonth(ReplaceDay(ref, 1))
        before == ref.d < base_day
        raises == IF before THEN ReplaceDayRaises(prev, base_day)
                  ELSE ReplaceDayRaises(ref, base_day)
        start == IF before THEN ReplaceDay(prev, base_day)
                 ELSE ReplaceDay(ref, base_day)
    IN IF raises
       THEN [raised |-> TRUE, start |-> ref, end |-> ref]
       ELSE [raised |-> FALSE, start |-> start, end |-> PlusMonth(start)]

\* views._current_period_for(user, ref): the same computation, written again
\* in views.py
views_current_period_for(anchor, ref) ==
    LET prev == MinusMonth(ReplaceDay(ref, 1))
    IN IF ref.d < anchor
       THEN IF ReplaceDayRaises(prev, anchor)
            THEN [raised |-> TRUE, start |-> ref, end |-> ref]
            ELSE [raised |-> FALSE, start |-> ReplaceDay(prev, anchor),
                  end |-> PlusMonth(ReplaceDay(prev, anchor))]
       ELSE IF ReplaceDayRaises(ref, anchor)
            THEN [raised |-> TRUE, start |-> ref, end |-> ref]
            ELSE [raised |-> FALSE, start |-> ReplaceDay(ref, anchor),
                  end |-> PlusMonth(ReplaceDay(ref, anchor))]

\* views._clamp_dom
clamp_dom(y, m, dom) == Date(y, m, Min(dom, monthrange(y, m)))

\* views._period_bounds_by_anchor
period_bounds_by_anchor(year, month, anchor_day) ==
    LET ny == year + (IF month = 12 THEN 1 ELSE 0)
        nm == IF month = 12 THEN 1 ELSE month + 1
    IN [start |-> clamp_dom(year, month, anchor_day),
        end |-> clamp_dom(ny, nm, anchor_day)]

\* ------------------------------------------------------------------ policy
\* messages of services.py and views.py (accents dropped)
MsgUnavailable == "Este horario no esta disponible."
MsgNoSchedule == "Este horario no tiene hora configurada."
MsgStarted == "Este horario ya inicio o ya paso."
MsgJoinLate == "No puedes inscribirte si falta menos de 1 hora."
MsgCancelLate == "No puedes cancelar si falta 1 hora o menos."
MsgSwitchNoSchedule == "Tu horario actual no tiene hora configurada; no es posible cambiar."
MsgSwitchLate == "No puedes cambiar de horario si falta 1 hora o menos para tu horario actual."
MsgUnpaid == "Debes tener tu pago al dia para inscribirte."
MsgFull == "Este horario ya esta lleno."
MsgCancelled == "Se cancelo tu registro con exito."
MsgJoined == "Registro completado con exito."
MsgSelectorCancelled == "Se cancelo tu registro con exito"

GROUP_JOIN == "group_join"
GROUP_LEAVE == "group_leave"

\* timedelta(hours=1) and timedelta(minutes=30), in minutes
JoinCutoff == 60
CancelCutoff == 30
SwitchCutoff == 60

\* helpers.slot_start_dt(slot): the slot's date combined with its start time,
\* or no value when the slot has no start time
slot_start_dt(s) ==
    [none |-> ~DailyRows[s].has_time,
     at |-> DailyRows[s].slot_date * (24 * 60) + DailyRows[s].start_time]

\* the time rules bind the administrator too
enforce_time_rules_always(is_admin) == TRUE

\* TimeslotPolicy.enforce_time_rules
enforce_time_rules(is_admin) == ~is_admin

\* a slot without start time is not refused
can_use_slot_unscheduled(is_admin, now, s, status) ==
    IF status # "open" THEN MsgUnavailable
    ELSE IF enforce_time_rules(is_admin) /\ slot_start_dt(s).at <= now THEN MsgStarted
    ELSE None

\* TimeslotPolicy.can_use_slot: the error, or None when the slot may be used
can_use_slot(is_admin, now, s, status) ==
    IF status # "open" THEN MsgUnavailable
    ELSE IF slot_start_dt(s).none THEN MsgNoSchedule
    ELSE IF enforce_time_rules(is_admin) /\ slot_start_dt(s).at <= now THEN MsgStarted
    ELSE None

\* a join still allowed at exactly one hour before the start
can_join_strict(is_admin, now, s) ==
    IF ~enforce_time_rules(is_admin) THEN None
    ELSE IF now > slot_start_dt(s).at - JoinCutoff THEN MsgJoinLate
    ELSE None

\* TimeslotPolicy.can_join
can_join(is_admin, now, s) ==
    IF ~enforce_time_rules(is_admin) THEN None
    ELSE IF now >= slot_start_dt(s).at - JoinCutoff THEN MsgJoinLate
    ELSE None

\* a cancellation still allowed at exactly 30 minutes before the start
can_cancel_strict(is_admin, now, s) ==
    IF ~enforce_time_rules(is_admin) THEN None
    ELSE IF now > slot_start_dt(s).at - CancelCutoff THEN MsgCancelLate
    ELSE None

\* TimeslotPolicy.can_cancel
can_cancel(is_admin, now, s) ==
    IF ~enforce_time_rules(is_admin) THEN None
    ELSE IF now >= slot_start_dt(s).at - CancelCutoff THEN MsgCancelLate
    ELSE None

\* a switch still allowed at exactly one hour before the current slot
can_switch_from_strict(is_admin, now, s) ==
    IF ~enforce_time_rules(is_admin) THEN None
    ELSE IF slot_start_dt(s).none THEN MsgSwitchNoSchedule
    ELSE IF now > slot_start_dt(s).at - SwitchCutoff THEN MsgSwitchLate
    ELSE None

\* TimeslotPolicy.can_switch_from
can_switch_from(is_admin, now, s) ==
    IF ~enforce_time_rules(is_admin) THEN None
    ELSE IF slot_start_dt(s).none THEN MsgSwitchNoSchedule
    ELSE IF now >= slot_start_dt(s).at - SwitchCutoff THEN MsgSwitchLate
    ELSE None

\* ------------------------------------------------------------------- state
VARIABLES
    gymusers,   \* GymUser rows: user -> [role, join_day]
    today,      \* timezone.localdate()
    clock,      \* timezone.now()
    slots,      \* committed DailyTimeslot rows: slot -> [capacity, status]
    signups,    \* committed TimeslotSignup rows: [user, slot, slot_date]
    payments,   \* committed Payment rows: [user, period_start, period_end]
    log,        \* committed ActivityLog rows, in commit order
    req,        \* the requests in flight: request -> its local state
    last,       \* what the request that ended last returned or raised
    started,    \* requests started so far
    adminOps,   \* administrator updates so far
    hist,       \* committed signup creations and cancellations of the engine
    obs,        \* the requests observed from construction to their outcomes
    bases,      \* committed BaseTimeslot rows: [id, title, capacity, is_active]
    daily,      \* DailyTimeslot rows made from the bases: [slot_date, title, base, capacity, status]
    view        \* what the administrator's call that ended last returned or raised

vars == <<gymusers, today, clock, slots, signups, payments, log, req,
          last, started, adminOps, hist, obs, bases, daily, view>>

Row(u, s, d) == [user |-> u, slot |-> s, slot_date |-> d]

IdleReq ==
    [pc |-> "idle", entry |-> None, user |-> None, is_admin |-> FALSE,
     slot |-> None, now |-> 0, capacity |-> 0, status |-> None,
     existing |-> {}, wait |-> {}, dels |-> {}, ins |-> {}, want |-> {},
     evs |-> <<>>, success |-> None]

\* the request as its caller builds it: the slot object is loaded and
\* timezone.now() is read (TimeslotService.__init__)
Built(e, u, s, t) ==
    [IdleReq EXCEPT !.pc = "built", !.entry = e, !.user = u,
                    !.is_admin = (gymusers[u].role = "admin"),
                    !.slot = s, !.now = IF e = "execute" THEN t ELSE 0,
                    !.capacity = slots[s].capacity,
                    !.status = slots[s].status]

\* the outcome of a request: the pair (success, error) it returned, or the
\* exception it raised
Outcome(success, error, raised) ==
    [success |-> success, error |-> error, raised |-> raised]

NoOutcome == Outcome(None, None, None)

NoObs ==
    [tracking |-> FALSE, pre |-> {}, reqs |-> [r \in Reqs |-> IdleReq],
     outs |-> [r \in Reqs |-> NoOutcome]]

\* the GymUser rows: u1 is a member or the administrator
GymUsers(role) ==
    [u \in Users |-> [role |-> IF u = "u1" THEN role ELSE "member",
                      join_day |-> JoinDays[u]]]

Init ==
    /\ gymusers \in {GymUsers(role) : role \in {"member", "admin"}}
    /\ today \in Todays
    /\ clock = FirstInstant
    /\ slots = [s \in Slots |-> [capacity |-> MaxCap, status |-> "open"]]
    /\ signups = {}
    /\ payments = {}
    /\ log = <<>>
    /\ req = [r \in Reqs |-> IdleReq]
    /\ last = NoOutcome
    /\ started = 0
    /\ adminOps = 0
    /\ hist = [creates |-> 0, cancels |-> 0]
    /\ obs = NoObs
    /\ bases = {}
    /\ daily = {}
    /\ view = None

\* ------------------------------------------------------------ store reads
Active(r) == req[r].pc # "idle"

\* the requests other than r that hold the row lock of a signup row
RowLockedByOther(r, row) ==
    \E o \in Reqs \ {r} : Active(o) /\ row \in req[o].existing

\* the rows that the transactions in flight other than those of `except`
\* have inserted, and the rows they are deleting
OtherIns(except) == UNION {req[o].ins : o \in {q \in Reqs \ except : Active(q)}}
OtherDels(except) == UNION {req[o].dels : o \in {q \in Reqs \ except : Active(q)}}

\* the constraint on (daily_slot, user) alone
CollidesSlotOnly(x, y) == x.user = y.user /\ x.slot = y.slot

\* the unique constraints of TimeslotSignup: (daily_slot, user) and
\* (gym, user, slot_date)
Collides(x, y) ==
    x.user = y.user /\ (x.slot = y.slot \/ x.slot_date = y.slot_date)

\* a filter on gym and user alone
RowsOfUser(S, u, d) == {x \in S : x.user = u}

\* the filter of the locking read: gym, user, slot_date, on the rows S
SameDayRows(S, u, d) == {x \in S : x.user = u /\ x.slot_date = d}

\* TimeslotSignup.objects.filter(daily_slot=slot).count(), as a statement of
\* the request sees it: the committed rows S and the request's own writes
Enrolled(rec, S, s) ==
    Cardinality({x \in (S \ rec.dels) \cup rec.ins : x.slot = s})

\* payments that cover the period between them count too
PaymentCoversJointly(u, ps, pe) ==
    /\ \E p \in payments : p.user = u /\ DateLE(p.period_start, ps)
    /\ \E p \in payments : p.user = u /\ DateLE(pe, p.period_end)

\* Payment.objects.filter(gym, user, period_start__lte=ps,
\* period_end__gte=pe).exists()
PaymentCovers(u, ps, pe) ==
    \E p \in payments :
        p.user = u /\ DateLE(p.period_start, ps) /\ DateLE(pe, p.period_end)

\* TimeslotService._has_active_payment: [raised, paid]
has_active_payment(u) ==
    LET per == current_period_for(gymusers[u].join_day, today)
    IN [raised |-> per.raised,
        paid |-> ~per.raised /\ PaymentCovers(u, per.start, per.end)]

\* TimeslotService._has_capacity: self.slot is the object the caller loaded
has_capacity(rec, S) ==
    LET capacity == rec.capacity
    IN IF capacity <= 0 THEN FALSE
       ELSE Enrolled(rec, S, rec.slot) < capacity

\* the capacity test of views.selector: enrolled >= cap means full
selector_has_capacity(rec, S) == ~(Enrolled(rec, S, rec.slot) >= rec.capacity)

\* activity.helpers.log_activity: one ActivityLog row
log_activity(actor, event_type, s) ==
    [event_type |-> event_type, actor |-> actor, group_title |-> s,
     group_date |-> DailyRows[s].slot_date]

\* a cancellation that records no event
log_leave_skipped(rec) == <<>>

\* TimeslotService._log_join and _log_leave
log_join(rec) == <<log_activity(rec.user, GROUP_JOIN, rec.slot)>>
log_leave(rec) == <<log_activity(rec.user, GROUP_LEAVE, rec.slot)>>

\* ---------------------------------------------------------- request steps
\* a step of a request leaves it in flight (Go), returns the pair
\* (success, error) to the caller (Returned: the atomic block is left
\* normally and the transaction commits what the request wrote) or lets an
\* exception leave the operation (Raised: the transaction is rolled back)
Go(rec) == [kind |-> "go", rec |-> rec, out |-> NoOutcome]

Returned(rec, success, error) ==
    [kind |-> "return", rec |-> rec, out |-> Outcome(success, error, None)]

Raised(rec, exc) ==
    [kind |-> "raise", rec |-> rec, out |-> Outcome(None, None, exc)]

\* a committed row that collides with the row to insert and that no other
\* transaction in flight is deleting: the insert raises IntegrityError
HardCollision(S, dels, otherDels, row) ==
    \E x \in S \ dels : Collides(x, row) /\ x \notin otherDels

\* a colliding row another transaction in flight has inserted or is
\* deleting: the insert waits for that transaction to end
SoftCollision(otherIns, otherDels, row) ==
    \E x \in otherIns \cup otherDels : Collides(x, row)

\* a switch that logs the leave of the old slot too
InsertedLoggingLeave(rec, dels, row) ==
    [rec EXCEPT !.pc = "written", !.dels = dels, !.ins = {row}, !.want = {},
                !.evs = IF rec.entry = "execute"
                        THEN (IF dels # {} THEN log_leave(rec) ELSE <<>>)
                             \o log_join(rec)
                        ELSE <<>>,
                !.success = MsgJoined]

\* the request's state once its insert is done: execute logs the join
Inserted(rec, dels, row) ==
    [rec EXCEPT !.pc = "written", !.dels = dels, !.ins = {row}, !.want = {},
                !.evs = IF rec.entry = "execute" THEN log_join(rec) ELSE <<>>,
                !.success = MsgJoined]

\* the end of another transaction wakes nobody
ResolveNobody(rec, S, deleted, otherIns, otherDels) == rec

\* what the end of another transaction does to the request rec: a locking
\* read waiting for a row the transaction deleted gets no row; an insert
\* that waited is decided against the rows S now committed
Resolve(rec, S, deleted, otherIns, otherDels) ==
    IF rec.pc = "waiting" /\ rec.wait \cap deleted # {}
    THEN [rec EXCEPT !.pc = "locked", !.wait = {}, !.existing = {}]
    ELSE IF rec.pc = "blocked"
    THEN IF \E row \in rec.want : HardCollision(S, rec.dels, otherDels, row)
         THEN [rec EXCEPT !.pc = "failed", !.want = {}]
         ELSE IF \E row \in rec.want : SoftCollision(otherIns, otherDels, row)
         THEN rec
         ELSE Inserted(rec, rec.dels, CHOOSE row \in rec.want : TRUE)
    ELSE rec

\* the step d of request r takes effect. When it ends the request, the
\* transaction ends with it: on a return its deletes, inserts and audit
\* events become visible together, on an exception none of them does; its
\* locks are released either way
Apply(r, d) ==
    LET ended == d.kind # "go"
        commits == d.kind = "return"
        dels == IF commits THEN d.rec.dels ELSE {}
        ins == IF commits THEN d.rec.ins ELSE {}
        evs == IF commits THEN d.rec.evs ELSE <<>>
        committed == (signups \ dels) \cup ins
    IN /\ signups' = committed
       /\ log' = log \o evs
       /\ hist' = IF d.rec.entry = "execute"
                  THEN [creates |-> hist.creates + Cardinality(ins),
                        cancels |-> hist.cancels +
                            (IF ins = {} THEN Cardinality(dels) ELSE 0)]
                  ELSE hist
       /\ req' = [q \in Reqs |->
             IF q = r THEN (IF ended THEN IdleReq ELSE d.rec)
             ELSE IF ended
             THEN Resolve(req[q], committed, dels,
                          OtherIns({q, r}), OtherDels({q, r}))
             ELSE req[q]]
       /\ last' = IF ended THEN d.out ELSE last
       /\ obs' = IF ended /\ obs.tracking
                 THEN [obs EXCEPT !.outs[r] = d.out]
                 ELSE obs

\* the caller loads the slot and builds the request's service object
\* (TimeslotService.__init__; get_object_or_404 in views.selector, which
\* admits members only)
Start(r) ==
    /\ ~Active(r)
    /\ \A o \in Reqs : o < r => Active(o)
    /\ started < MaxStarted
    /\ \E e \in Entries, u \in Users, s \in Slots, t \in Instants :
        /\ t >= clock
        /\ e = "selector" => (t = clock /\ gymusers[u].role = "member")
        /\ clock' = t
        /\ req' = [req EXCEPT ![r] = Built(e, u, s, t)]
    /\ started' = started + 1
    /\ UNCHANGED <<gymusers, today, slots, signups, payments, log, last,
                   adminOps, hist, obs,
                   bases, daily, view>>

\* the locking read of the member's signup of the slot's day:
\* TimeslotSignup.objects.select_for_update().filter(...).first()
LockingRead(r) ==
    LET rows == SameDayRows(signups, req[r].user, DailyRows[req[r].slot].slot_date)
    IN IF rows = {}
       THEN Go([req[r] EXCEPT !.pc = "locked"])
       ELSE LET row == CHOOSE x \in rows : TRUE
            IN IF RowLockedByOther(r, row)
               THEN Go([req[r] EXCEPT !.pc = "waiting", !.wait = {row}])
               ELSE Go([req[r] EXCEPT !.pc = "locked", !.existing = {row}])

\* execute up to the locking read: can_use_slot on the loaded slot, then the read
ExecuteLock(r) ==
    /\ req[r].pc = "built" /\ req[r].entry = "execute"
    /\ LET error == can_use_slot(req[r].is_admin, req[r].now, req[r].slot, req[r].status)
       IN \E d \in {IF error # None THEN Returned(req[r], None, error)
                    ELSE LockingRead(r)} :
             Apply(r, d)
    /\ UNCHANGED <<gymusers, today, clock, slots, payments, started, adminOps,
                   bases, daily, view>>

\* views.selector up to the locking read
SelectorLock(r) ==
    /\ req[r].pc = "built" /\ req[r].entry = "selector"
    /\ \E d \in {LockingRead(r)} : Apply(r, d)
    /\ UNCHANGED <<gymusers, today, clock, slots, payments, started, adminOps,
                   bases, daily, view>>

\* a locking read that waited gets the row once its holder has ended without
\* deleting it
LockWake(r) ==
    /\ req[r].pc = "waiting"
    /\ \E row \in req[r].wait :
        /\ ~RowLockedByOther(r, row)
        /\ row \in signups
        /\ Apply(r, Go([req[r] EXCEPT !.pc = "locked", !.existing = {row},
                                      !.wait = {}]))
    /\ UNCHANGED <<gymusers, today, clock, slots, payments, started, adminOps,
                   bases, daily, view>>

\* ------------------------------------------------------------- the writes
\* existing.delete() when there is one, then TimeslotSignup.objects.create:
\* execute and views.selector do not catch the IntegrityError of the insert
Create(rec, S, otherIns, otherDels) ==
    LET row == Row(rec.user, rec.slot, DailyRows[rec.slot].slot_date)
        dels == rec.existing
    IN IF HardCollision(S, dels, otherDels, row)
       THEN Raised(rec, "IntegrityError")
       ELSE IF SoftCollision(otherIns, otherDels, row)
       THEN Go([rec EXCEPT !.pc = "blocked", !.dels = dels, !.want = {row}])
       ELSE Go(Inserted(rec, dels, row))

\* existing and existing.daily_slot_id == self.slot.id
IsCancel(rec) ==
    rec.existing # {} /\ \A x \in rec.existing : x.slot = rec.slot

\* the error of can_switch_from on the slot of the existing signup, if any
SwitchError(rec) ==
    LET errors == {can_switch_from(rec.is_admin, rec.now, x.slot) :
                     x \in rec.existing} \ {None}
    IN IF errors = {} THEN None ELSE CHOOSE e \in errors : TRUE

\* a cancellation that asks for a current payment
ExecuteCancelPaid(rec) ==
    LET error == can_cancel(rec.is_admin, rec.now, rec.slot)
        pay == has_active_payment(rec.user)
    IN IF error # None THEN Returned(rec, None, error)
       ELSE IF pay.raised THEN Raised(rec, "ValueError")
       ELSE IF ~pay.paid THEN Returned(rec, None, MsgUnpaid)
       ELSE Go([rec EXCEPT !.pc = "written", !.dels = rec.existing,
                           !.evs = log_leave(rec), !.success = MsgCancelled])

\* the cancel branch of execute: can_cancel, delete, _log_leave
ExecuteCancel(rec) ==
    LET error == can_cancel(rec.is_admin, rec.now, rec.slot)
    IN IF error # None THEN Returned(rec, None, error)
       ELSE Go([rec EXCEPT !.pc = "written", !.dels = rec.existing,
                           !.evs = log_leave(rec), !.success = MsgCancelled])

\* a switch that deletes the existing signup before the capacity gate
ExecuteJoinDeleteFirst(rec, S, otherIns, otherDels) ==
    LET joinErr == can_join(rec.is_admin, rec.now, rec.slot)
        pay == has_active_payment(rec.user)
    IN IF joinErr # None THEN Returned(rec, None, joinErr)
       ELSE IF SwitchError(rec) # None THEN Returned(rec, None, SwitchError(rec))
       ELSE IF pay.raised THEN Raised(rec, "ValueError")
       ELSE IF ~pay.paid THEN Returned(rec, None, MsgUnpaid)
       ELSE IF ~has_capacity(rec, S)
       THEN Returned([rec EXCEPT !.dels = rec.existing], None, MsgFull)
       ELSE Create(rec, S, otherIns, otherDels)

\* a join that reads the capacity before the payment
ExecuteJoinCapacityFirst(rec, S, otherIns, otherDels) ==
    LET joinErr == can_join(rec.is_admin, rec.now, rec.slot)
        pay == has_active_payment(rec.user)
    IN IF joinErr # None THEN Returned(rec, None, joinErr)
       ELSE IF SwitchError(rec) # None THEN Returned(rec, None, SwitchError(rec))
       ELSE IF ~has_capacity(rec, S) THEN Returned(rec, None, MsgFull)
       ELSE IF pay.raised THEN Raised(rec, "ValueError")
       ELSE IF ~pay.paid THEN Returned(rec, None, MsgUnpaid)
       ELSE Create(rec, S, otherIns, otherDels)

\* the join / switch branch of execute: can_join, can_switch_from, payment,
\* capacity, then the writes
ExecuteJoin(rec, S, otherIns, otherDels) ==
    LET joinErr == can_join(rec.is_admin, rec.now, rec.slot)
        pay == has_active_payment(rec.user)
    IN IF joinErr # None THEN Returned(rec, None, joinErr)
       ELSE IF SwitchError(rec) # None THEN Returned(rec, None, SwitchError(rec))
       ELSE IF pay.raised THEN Raised(rec, "ValueError")
       ELSE IF ~pay.paid THEN Returned(rec, None, MsgUnpaid)
       ELSE IF ~has_capacity(rec, S) THEN Returned(rec, None, MsgFull)
       ELSE Create(rec, S, otherIns, otherDels)

\* TimeslotService.execute after the locking read
ExecuteBranch(rec, S, otherIns, otherDels) ==
    IF IsCancel(rec) THEN ExecuteCancel(rec)
    ELSE ExecuteJoin(rec, S, otherIns, otherDels)

ExecuteDecide(r) ==
    /\ req[r].pc = "locked" /\ req[r].entry = "execute"
    /\ \E d \in {ExecuteBranch(req[r], signups, OtherIns({r}), OtherDels({r}))} :
          Apply(r, d)
    /\ UNCHANGED <<gymusers, today, clock, slots, payments, started, adminOps,
                   bases, daily, view>>

\* views.selector after the locking read: no policy gate and no audit event
SelectorBranch(rec, S, otherIns, otherDels) ==
    LET pay == has_active_payment(rec.user)
    IN IF IsCancel(rec)
       THEN Go([rec EXCEPT !.pc = "written", !.dels = rec.existing,
                           !.success = MsgSelectorCancelled])
       ELSE IF pay.raised THEN Raised(rec, "ValueError")
       ELSE IF ~pay.paid THEN Returned(rec, None, MsgUnpaid)
       ELSE IF ~selector_has_capacity(rec, S) THEN Returned(rec, None, MsgFull)
       ELSE Create(rec, S, otherIns, otherDels)

SelectorDecide(r) ==
    /\ req[r].pc = "locked" /\ req[r].entry = "selector"
    /\ \E d \in {SelectorBranch(req[r], signups, OtherIns({r}), OtherDels({r}))} :
          Apply(r, d)
    /\ UNCHANGED <<gymusers, today, clock, slots, payments, started, adminOps,
                   bases, daily, view>>

\* execute returns its success message and the transaction the caller runs
\* it in commits (select_for_update needs one)
ExecuteCommit(r) ==
    /\ req[r].pc = "written" /\ req[r].entry = "execute"
    /\ Apply(r, Returned(req[r], req[r].success, None))
    /\ UNCHANGED <<gymusers, today, clock, slots, payments, started, adminOps,
                   bases, daily, view>>

\* views.selector leaves its atomic block and the transaction commits
SelectorCommit(r) ==
    /\ req[r].pc = "written" /\ req[r].entry = "selector"
    /\ Apply(r, Returned(req[r], req[r].success, None))
    /\ UNCHANGED <<gymusers, today, clock, slots, payments, started, adminOps,
                   bases, daily, view>>

\* the insert that waited raises IntegrityError: the exception leaves the
\* operation and the transaction is rolled back
Rollback(r) ==
    /\ req[r].pc = "failed"
    /\ Apply(r, Raised(req[r], "IntegrityError"))
    /\ UNCHANGED <<gymusers, today, clock, slots, payments, started, adminOps,
                   bases, daily, view>>

\* ------------------------------------------------------ administrator steps
\* GymService.update_daily_timeslot(slot_id, capacity=c)
UpdateDailyTimeslot(s, c) ==
    /\ adminOps < MaxAdminOps
    /\ c # slots[s].capacity
    /\ slots' = [slots EXCEPT ![s].capacity = c]
    /\ adminOps' = adminOps + 1
    /\ UNCHANGED <<gymusers, today, clock, signups, payments, log, req, last,
                   started, hist, obs,
                   bases, daily, view>>

\* views.payment (POST, new payment): the period is that of the chosen
\* month anchored to the member's join day
PaymentOf(u) ==
    LET ym == PayMonth(today)
        b == period_bounds_by_anchor(ym[1], ym[2], gymusers[u].join_day)
    IN [user |-> u, period_start |-> b.start, period_end |-> b.end]

AddPayment(u) ==
    /\ PaymentOf(u) \notin payments
    /\ payments' = payments \cup {PaymentOf(u)}
    /\ UNCHANGED <<gymusers, today, clock, slots, signups, log, req, last,
                   started, adminOps, hist, obs,
                   bases, daily, view>>

Requests ==
    \/ \E r \in Reqs : ExecuteLock(r)
    \/ \E r \in Reqs : SelectorLock(r)
    \/ \E r \in Reqs : LockWake(r)
    \/ \E r \in Reqs : ExecuteDecide(r)
    \/ \E r \in Reqs : SelectorDecide(r)
    \/ \E r \in Reqs : ExecuteCommit(r)
    \/ \E r \in Reqs : SelectorCommit(r)
    \/ \E r \in Reqs : Rollback(r)

Next ==
    \/ \E r \in Reqs : Start(r)
    \/ Requests
    \/ \E u \in Users : AddPayment(u)

Spec == Init /\ [][Next]_vars

\* the steps of request r
Step(r) ==
    \/ ExecuteLock(r) \/ SelectorLock(r) \/ LockWake(r)
    \/ ExecuteDecide(r) \/ SelectorDecide(r)
    \/ ExecuteCommit(r) \/ SelectorCommit(r) \/ Rollback(r)

\* the requests together with the administrator's updates of the slots
NextAdmin ==
    \/ Next
    \/ \E s \in Slots, c \in 0..MaxCap : UpdateDailyTimeslot(s, c)

SpecAdmin == Init /\ [][NextAdmin]_vars

\* ------------------------------------------- two requests of one member
\* the signups earlier requests have left: at most one per member and day
Stores ==
    {own \cup other :
        own \in {{}} \cup {{Row("u1", s, DailyRows[s].slot_date)} : s \in Slots},
        other \in {{}} \cup {{Row("u2", s, DailyRows[s].slot_date)} : s \in Slots}}

\* the audit events of the engine's joins that left the signups S
JoinsOf(S) ==
    LET ev(u, s) == IF Row(u, s, DailyRows[s].slot_date) \in S
                    THEN <<log_activity(u, GROUP_JOIN, s)>> ELSE <<>>
    IN ev("u1", "A") \o ev("u1", "B") \o ev("u2", "A") \o ev("u2", "B")

\* one member has two requests built and none has run yet
InitSameKey ==
    /\ gymusers \in {GymUsers(role) : role \in {"member", "admin"}}
    /\ today \in Todays
    /\ slots = [s \in Slots |-> [capacity |-> MaxCap, status |-> "open"]]
    /\ signups \in Stores
    /\ log = JoinsOf(signups)
    /\ hist = [creates |-> Len(log), cancels |-> 0]
    /\ \E u \in Users :
        /\ payments \in {{}, {PaymentOf(u)}}
        /\ \E e1 \in Entries, e2 \in Entries, s1 \in Slots, s2 \in Slots,
              t1 \in Instants, t2 \in Instants :
            /\ t1 <= t2
            /\ "selector" \in {e1, e2} => gymusers[u].role = "member"
            /\ e1 = "selector" => t1 = t2
            /\ clock = t2
            /\ req = [r \in Reqs |-> IF r = 1 THEN Built(e1, u, s1, t1)
                                     ELSE Built(e2, u, s2, t2)]
    /\ last = NoOutcome
    /\ started = Cardinality(Reqs)
    /\ adminOps = 0
    /\ obs = [tracking |-> TRUE, pre |-> signups, reqs |-> req,
              outs |-> [r \in Reqs |-> NoOutcome]]
    /\ bases = {}
    /\ daily = {}
    /\ view = None

SpecSameKey == InitSameKey /\ [][Requests]_vars

\* ------------------------------------------------ two requests in flight
\* two requests of paid members, of one member or of two, are built on the
\* signups earlier requests have left, and none has run yet
InitContend ==
    /\ gymusers = GymUsers("member")
    /\ today = Date(2024, 1, 10)
    /\ clock = FirstInstant
    /\ slots = [s \in Slots |-> [capacity |-> MaxCap, status |-> "open"]]
    /\ signups \in Stores
    /\ payments = {PaymentOf(u) : u \in Users}
    /\ log = JoinsOf(signups)
    /\ hist = [creates |-> Len(log), cancels |-> 0]
    /\ \E e \in [Reqs -> Entries], u \in [Reqs -> Users], s \in [Reqs -> Slots] :
          req = [r \in Reqs |-> Built(e[r], u[r], s[r], FirstInstant)]
    /\ last = NoOutcome
    /\ started = Cardinality(Reqs)
    /\ adminOps = 0
    /\ obs = NoObs
    /\ bases = {}
    /\ daily = {}
    /\ view = None

\* the server runs every request it has accepted and the store's lock
\* manager hands a released lock to a waiter
SpecContend == InitContend /\ [][Requests]_vars /\ \A r \in Reqs : WF_vars(Step(r))

\* GymService.close_slot and GymService.cancel_slot
CloseSlot(s) ==
    /\ adminOps < MaxAdminOps
    /\ slots[s].status # "closed"
    /\ slots' = [slots EXCEPT ![s].status = "closed"]
    /\ adminOps' = adminOps + 1
    /\ UNCHANGED <<gymusers, today, clock, signups, payments, log, req, last,
                   started, hist, obs, bases, daily, view>>

CancelSlot(s) ==
    /\ adminOps < MaxAdminOps
    /\ slots[s].status # "cancelled"
    /\ slots' = [slots EXCEPT ![s].status = "cancelled"]
    /\ adminOps' = adminOps + 1
    /\ UNCHANGED <<gymusers, today, clock, signups, payments, log, req, last,
                   started, hist, obs, bases, daily, view>>

\* the two requests in flight while the administrator closes or cancels a
\* slot
NextClose ==
    \/ Requests
    \/ \E s \in Slots : CloseSlot(s)
    \/ \E s \in Slots : CancelSlot(s)

SpecClose == InitContend /\ [][NextClose]_vars

\* ------------------------------------------ one request against the policy
\* the daily timeslots a request can name, the statuses GymService.close_slot
\* and cancel_slot give them, and the instants of a request
PolicySlots == Slots \cup {"N"}
Statuses == {"open", "closed", "cancelled"}
PolicyInstants == Instants \cup {DailyRows["A"].start_time + 30}

\* the signups earlier requests have left on these slots
PolicyStores ==
    {own \cup other :
        own \in {{}} \cup
            {{Row("u1", s, DailyRows[s].slot_date)} : s \in PolicySlots},
        other \in {{}} \cup
            {{Row("u2", s, DailyRows[s].slot_date)} : s \in PolicySlots}}

\* one request of the engine is built and has not run yet
InitPolicy ==
    /\ gymusers \in {GymUsers(role) : role \in {"member", "admin"}}
    /\ today \in Todays
    /\ slots \in [PolicySlots -> {[capacity |-> MaxCap, status |-> st] :
                                     st \in Statuses}]
    /\ signups \in PolicyStores
    /\ log = JoinsOf(signups)
    /\ hist = [creates |-> Len(log), cancels |-> 0]
    /\ \E u \in Users, s \in PolicySlots, t \in PolicyInstants :
        /\ payments \in {{}, {PaymentOf(u)}}
        /\ clock = t
        /\ req = [r \in Reqs |-> IF r = 1 THEN Built("execute", u, s, t)
                                 ELSE IdleReq]
    /\ last = NoOutcome
    /\ started = 1
    /\ adminOps = 0
    /\ obs = [tracking |-> TRUE, pre |-> signups, reqs |-> req,
              outs |-> [r \in Reqs |-> NoOutcome]]
    /\ bases = {}
    /\ daily = {}
    /\ view = None

NextPolicy ==
    \/ \E r \in Reqs : ExecuteLock(r)
    \/ \E r \in Reqs : ExecuteDecide(r)
    \/ \E r \in Reqs : ExecuteCommit(r)

SpecPolicy == InitPolicy /\ [][NextPolicy]_vars

\* ------------------------------------- two requests and a slot of tomorrow
\* the slots of two days, and the signups earlier requests have left on
\* them: at most one per member and day, no slot over its capacity
FrameSlots == Slots \cup {"T"}

FrameStores ==
    {S \in SUBSET {Row(u, s, DailyRows[s].slot_date) :
                       u \in Users, s \in FrameSlots} :
        /\ \A x \in S, y \in S : x # y => ~Collides(x, y)
        /\ \A s \in FrameSlots :
              Cardinality({x \in S : x.slot = s}) <= MaxCap}

\* two requests are built and none has run yet
InitFrame ==
    /\ gymusers = GymUsers("member")
    /\ today = Date(2024, 1, 10)
    /\ clock = FirstInstant
    /\ slots = [s \in FrameSlots |-> [capacity |-> MaxCap, status |-> "open"]]
    /\ signups \in FrameStores
    /\ payments = {PaymentOf(u) : u \in Users}
    /\ log = JoinsOf(signups)
             \o (IF Row("u1", "T", 1) \in signups
                 THEN <<log_activity("u1", GROUP_JOIN, "T")>> ELSE <<>>)
             \o (IF Row("u2", "T", 1) \in signups
                 THEN <<log_activity("u2", GROUP_JOIN, "T")>> ELSE <<>>)
    /\ hist = [creates |-> Len(log), cancels |-> 0]
    /\ \E e \in [Reqs -> Entries], u \in [Reqs -> Users],
          s \in [Reqs -> FrameSlots] :
        req = [r \in Reqs |-> Built(e[r], u[r], s[r], FirstInstant)]
    /\ last = NoOutcome
    /\ started = Cardinality(Reqs)
    /\ adminOps = 0
    /\ obs = [tracking |-> TRUE, pre |-> signups, reqs |-> req,
              outs |-> [r \in Reqs |-> NoOutcome]]
    /\ bases = {}
    /\ daily = {}
    /\ view = None

SpecFrame == InitFrame /\ [][Requests]_vars

\* ------------------------------------------------------ the payment ledger
\* the join days, the dates of today and the months paid for
AnchorDays == {1, 15, 30, 31}
PayTodays ==
    {Date(2023, 12, 20), Date(2024, 1, 10), Date(2024, 1, 20),
     Date(2024, 2, 15), Date(2024, 3, 15), Date(2024, 3, 31),
     Date(2024, 4, 30)}
PayMonths == {<<2023, 12>>, <<2024, 1>>, <<2024, 2>>, <<2024, 3>>}

\* what is left alone by the calls on the ledger
engineVars ==
    <<clock, slots, signups, log, req, last, started, adminOps, hist, obs>>

\* the response of a call: the call, the member it is about, whether it
\* raised, and the value returned
Response(call, u, raised, value) ==
    [call |-> call, user |-> u, raised |-> raised, value |-> value]

\* no call has been made yet
NoResponse == Response(None, None, FALSE, None)

InitLedger ==
    /\ \E d \in AnchorDays :
          gymusers = [GymUsers("member") EXCEPT !["u1"].join_day = d]
    /\ today \in PayTodays
    /\ clock = FirstInstant
    /\ slots = [s \in Slots |-> [capacity |-> MaxCap, status |-> "open"]]
    /\ signups = {}
    /\ payments = {}
    /\ log = <<>>
    /\ req = [r \in Reqs |-> IdleReq]
    /\ last = NoOutcome
    /\ started = 0
    /\ adminOps = 0
    /\ hist = [creates |-> 0, cancels |-> 0]
    /\ obs = NoObs
    /\ bases = {}
    /\ daily = {}
    /\ view = NoResponse

\* views.user (POST): the administrator sets the join date of member u1
SaveMember(u, d) ==
    /\ u = "u1" /\ d # gymusers[u].join_day
    /\ gymusers' = [gymusers EXCEPT ![u].join_day = d]
    /\ view' = Response("user", u, FALSE, None)
    /\ UNCHANGED <<today, payments, engineVars, bases, daily>>

\* views.payment (POST, new payment) for the month ym: the period is
\* anchored to the join day the member has now
PostPayment(u, ym) ==
    LET b == period_bounds_by_anchor(ym[1], ym[2], gymusers[u].join_day)
        p == [user |-> u, period_start |-> b.start, period_end |-> b.end]
    IN /\ Cardinality(payments) < MaxPayments
       /\ p \notin payments
       /\ payments' = payments \cup {p}
       /\ view' = Response("payment", u, FALSE, None)
       /\ UNCHANGED <<gymusers, today, engineVars, bases, daily>>

\* current_period_for(user, ref=today)
CurrentPeriod(u) ==
    LET per == current_period_for(gymusers[u].join_day, today)
    IN /\ view' = Response("current_period_for", u, per.raised,
                           IF per.raised THEN None ELSE <<per.start, per.end>>)
       /\ UNCHANGED <<gymusers, today, payments, engineVars, bases, daily>>

\* TimeslotService._has_active_payment
HasActivePayment(u) ==
    LET pay == has_active_payment(u)
    IN /\ view' = Response("_has_active_payment", u, pay.raised, pay.paid)
       /\ UNCHANGED <<gymusers, today, payments, engineVars, bases, daily>>

\* GymService.user_has_paid_current_period
user_has_paid_current_period(u) ==
    LET per == current_period_for(gymusers[u].join_day, today)
    IN [raised |-> per.raised,
        paid |-> ~per.raised /\ PaymentCovers(u, per.start, per.end)]

UserHasPaid(u) ==
    LET pay == user_has_paid_current_period(u)
    IN /\ view' = Response("user_has_paid_current_period", u, pay.raised,
                           pay.paid)
       /\ UNCHANGED <<gymusers, today, payments, engineVars, bases, daily>>

\* views.users: one row [user, paid_current_period, next_payment_date] per
\* member; the view raises when the period of a member does
users(members) ==
    LET per(u) == views_current_period_for(gymusers[u].join_day, today)
    IN IF \E u \in members : per(u).raised
       THEN Response("users", None, TRUE, None)
       ELSE Response("users", None, FALSE,
               {[user |-> u,
                 paid_current_period |->
                     PaymentCovers(u, per(u).start, per(u).end),
                 next_payment_date |-> per(u).end] : u \in members})

UsersListing ==
    /\ view' = users({u \in Users : gymusers[u].role = "member"})
    /\ UNCHANGED <<gymusers, today, payments, engineVars, bases, daily>>

NextLedger ==
    \/ \E u \in Users, d \in AnchorDays : SaveMember(u, d)
    \/ \E u \in Users, ym \in PayMonths : PostPayment(u, ym)
    \/ \E u \in Users : CurrentPeriod(u)
    \/ \E u \in Users : HasActivePayment(u)
    \/ \E u \in Users : UserHasPaid(u)
    \/ UsersListing

SpecLedger == InitLedger /\ [][NextLedger]_vars

\* ------------------------------------------------- the catalogue of slots
BaseIds == 1..MaxBases
\* DailyTimeslot.base is null
NoBase == 0
Titles == {"7am", "8am"}
Capacities == {1, 2}
PublishActions == {"today", "tomorrow", "week"}

\* what is left alone by a change of the base templates
catalogVars ==
    <<clock, slots, signups, log, req, last, started, hist, obs>>

\* date.toordinal and date.weekday (Monday is 0)
RECURSIVE DaysBeforeMonth(_, _)
DaysBeforeMonth(y, m) ==
    IF m = 1 THEN 0 ELSE DaysBeforeMonth(y, m - 1) + monthrange(y, m - 1)
toordinal(d) ==
    LET y == d.y - 1
    IN y * 365 + (y \div 4) - (y \div 100) + (y \div 400)
       + DaysBeforeMonth(d.y, d.m) + d.d
weekday(d) == (toordinal(d) + 6) % 7

\* day + timedelta(days=n)
RECURSIVE AddDays(_, _)
AddDays(d, n) ==
    IF n = 0 THEN d
    ELSE IF d.d < monthrange(d.y, d.m) THEN AddDays(Date(d.y, d.m, d.d + 1), n - 1)
    ELSE IF d.m < 12 THEN AddDays(Date(d.y, d.m + 1, 1), n - 1)
    ELSE AddDays(Date(d.y + 1, 1, 1), n - 1)

\* every day can be published
can_publish_any(day) == TRUE

\* base_hours.can_publish
AVOID_WEEKDAYS == {5, 6}
can_publish(day) == weekday(day) \notin AVOID_WEEKDAYS

\* the response of a call on the catalogue
Reply(call, action, raised, value) ==
    [call |-> call, action |-> action, raised |-> raised, value |-> value]
NoReply == Reply(None, None, FALSE, None)

BaseRow(id, title, capacity, is_active) ==
    [id |-> id, title |-> title, capacity |-> capacity, is_active |-> is_active]
DailyRow(day, title, base, capacity) ==
    [slot_date |-> day, title |-> title, base |-> base, capacity |-> capacity,
     status |-> "open"]

\* the rows no lookup finds
NoRowsFor(D, id, day) == {}

\* DailyTimeslot.objects.get(gym, base=b, slot_date=day) of get_or_create
RowsFor(D, id, day) == {x \in D : x.base = id /\ x.slot_date = day}

\* uniq_daily_date_title_per_gym
TitleTaken(D, day, title) ==
    \E x \in D : x.slot_date = day /\ x.title = title

\* publish_for_day from the base of id i on: the bases in id order, one
\* get_or_create each; out is [raised, rows, created, skipped]
RECURSIVE publish_from(_, _, _)
publish_from(i, day, out) ==
    IF out.raised \/ i > MaxBases THEN out
    ELSE IF ~\E b \in bases : b.id = i /\ b.is_active
         THEN publish_from(i + 1, day, out)
    ELSE LET b == CHOOSE b \in bases : b.id = i
             found == RowsFor(out.rows, i, day)
         IN IF Cardinality(found) > 1
            THEN [out EXCEPT !.raised = TRUE]
            ELSE IF found # {}
            THEN publish_from(i + 1, day,
                              [out EXCEPT !.skipped = out.skipped + 1])
            ELSE IF TitleTaken(out.rows, day, b.title)
            THEN [out EXCEPT !.raised = TRUE]
            ELSE publish_from(i + 1, day,
                    [out EXCEPT !.created = out.created + 1,
                                !.rows = out.rows \cup
                                   {DailyRow(day, b.title, i, b.capacity)}])

publish_for_day(day, out) ==
    IF ~can_publish(day) THEN out ELSE publish_from(1, day, out)

\* the days of an action of base_hours, as offsets from today
Offsets(action) ==
    IF action = "today" THEN <<0>>
    ELSE IF action = "tomorrow" THEN <<1>>
    ELSE <<0, 1, 2, 3, 4, 5, 6>>

RECURSIVE publish_days(_, _)
publish_days(offs, out) ==
    IF offs = <<>> THEN out
    ELSE publish_days(Tail(offs),
                      publish_for_day(AddDays(today, Head(offs)), out))

\* base_hours (POST): the days of the action in one transaction
BaseHoursPost(action) ==
    LET out == publish_days(Offsets(action),
                  [raised |-> FALSE, rows |-> daily, created |-> 0,
                   skipped |-> 0])
    IN /\ daily' = IF out.raised THEN daily ELSE out.rows
       /\ view' = Reply("base_hours", action, out.raised,
                        IF out.raised THEN None
                        ELSE [created |-> out.created, skipped |-> out.skipped])
       /\ UNCHANGED <<gymusers, today, payments, engineVars, bases>>

\* Django admin, add base timeslot: the form refuses a title the gym has
AdminAddBase(id, title, capacity, is_active) ==
    /\ adminOps < MaxBaseOps
    /\ ~\E b \in bases : b.id = id \/ b.title = title
    /\ bases' = bases \cup {BaseRow(id, title, capacity, is_active)}
    /\ adminOps' = adminOps + 1
    /\ view' = Reply("admin_add_base", None, FALSE, None)
    /\ UNCHANGED <<gymusers, today, payments, catalogVars, daily>>

\* Django admin, delete base timeslot: DailyTimeslot.base is SET_NULL
AdminDeleteBase(id) ==
    /\ adminOps < MaxBaseOps
    /\ \E b \in bases : b.id = id
    /\ bases' = {b \in bases : b.id # id}
    /\ daily' = {IF x.base = id THEN [x EXCEPT !.base = NoBase] ELSE x :
                 x \in daily}
    /\ adminOps' = adminOps + 1
    /\ view' = Reply("admin_delete_base", None, FALSE, None)
    /\ UNCHANGED <<gymusers, today, payments, catalogVars>>

\* GymService.update_base_timeslot(slot_id, title, capacity, is_active):
\* uniq_base_title_per_gym raises when another base has the title
UpdateBaseTimeslot(id, title, capacity, is_active) ==
    /\ adminOps < MaxBaseOps
    /\ \E b \in bases : b.id = id
    /\ BaseRow(id, title, capacity, is_active) \notin bases
    /\ adminOps' = adminOps + 1
    /\ IF \E b \in bases : b.id # id /\ b.title = title
       THEN /\ view' = Reply("update_base_timeslot", None, TRUE, None)
            /\ UNCHANGED bases
       ELSE /\ view' = Reply("update_base_timeslot", None, FALSE, None)
            /\ bases' = {b \in bases : b.id # id}
                           \cup {BaseRow(id, title, capacity, is_active)}
    /\ UNCHANGED <<gymusers, today, payments, catalogVars, daily>>

\* GymService.ensure_daily_from_base_for_range(start, end), start and end
\* as offsets from today: a missing (slot_date, title) is created without
\* gym, which the column refuses
RangeDays(from, to) == {AddDays(today, n) : n \in from..to}
EnsureDaily(from, to) ==
    LET missing == \E d \in RangeDays(from, to), b \in bases :
                       b.is_active /\ ~TitleTaken(daily, d, b.title)
    IN /\ from <= to
       /\ view' = Reply("ensure_daily_from_base_for_range", None, missing,
                        IF missing THEN None
                        ELSE [created |-> 0, skipped |-> 0])
       /\ UNCHANGED <<gymusers, today, payments, engineVars, bases, daily>>

InitCatalog ==
    /\ gymusers = GymUsers("member")
    /\ today \in Todays
    /\ clock = FirstInstant
    /\ slots = [s \in Slots |-> [capacity |-> MaxCap, status |-> "open"]]
    /\ signups = {}
    /\ payments = {}
    /\ log = <<>>
    /\ req = [r \in Reqs |-> IdleReq]
    /\ last = NoOutcome
    /\ started = 0
    /\ adminOps = 0
    /\ hist = [creates |-> 0, cancels |-> 0]
    /\ obs = NoObs
    /\ bases = {}
    /\ daily = {}
    /\ view = NoReply

NextCatalog ==
    \/ \E a \in PublishActions : BaseHoursPost(a)
    \/ \E id \in BaseIds, t \in Titles, c \in Capacities, a \in BOOLEAN :
          AdminAddBase(id, t, c, a)
    \/ \E id \in BaseIds : AdminDeleteBase(id)
    \/ \E id \in BaseIds, t \in Titles, c \in Capacities, a \in BOOLEAN :
          UpdateBaseTimeslot(id, t, c, a)
    \/ \E from \in 0..1, to \in 0..1 : EnsureDaily(from, to)

SpecCatalog == InitCatalog /\ [][NextCatalog]_vars

\* --------------------------------------------------- the seats of a slot
\* Count("signups") of a daily timeslot
Count(s) == Cardinality({x \in signups : x.slot = s})

\* the row a view or a query reports for slot s with the seats left
SeatRow(s, available) ==
    [slot |-> s, capacity |-> slots[s].capacity, enrolled |-> Count(s),
     available |-> available]

\* GymService.slot_status
SlotStatus(s) ==
    /\ view' = Reply("slot_status", s, FALSE,
                     {SeatRow(s, slots[s].capacity - Count(s))})
    /\ UNCHANGED <<gymusers, today, payments, engineVars, bases, daily>>

\* GymService.day_overview of the day of the slots
DayOverview ==
    /\ view' = Reply("day_overview", None, FALSE,
                     {SeatRow(s, slots[s].capacity - Count(s)) : s \in Slots})
    /\ UNCHANGED <<gymusers, today, payments, engineVars, bases, daily>>

\* max(cap - enrolled, 0) of the views
Floored(n) == IF n > 0 THEN n ELSE 0

\* views.selector (GET)
SelectorGet ==
    /\ view' = Reply("selector", None, FALSE,
                     {SeatRow(s, Floored(slots[s].capacity - Count(s))) :
                      s \in Slots})
    /\ UNCHANGED <<gymusers, today, payments, engineVars, bases, daily>>

\* views.hours
HoursGet ==
    /\ view' = Reply("hours", None, FALSE,
                     {SeatRow(s, Floored(slots[s].capacity - Count(s))) :
                      s \in Slots})
    /\ UNCHANGED <<gymusers, today, payments, engineVars, bases, daily>>

\* the signups earlier requests have left, no slot above its capacity
InitSeats ==
    /\ gymusers = GymUsers("member")
    /\ today \in Todays
    /\ clock = FirstInstant
    /\ slots = [s \in Slots |-> [capacity |-> MaxCap, status |-> "open"]]
    /\ signups \in {S \in Stores :
                      \A s \in Slots :
                         Cardinality({x \in S : x.slot = s}) <= MaxCap}
    /\ payments = {}
    /\ log = JoinsOf(signups)
    /\ req = [r \in Reqs |-> IdleReq]
    /\ last = NoOutcome
    /\ started = 0
    /\ adminOps = 0
    /\ hist = [creates |-> Len(log), cancels |-> 0]
    /\ obs = NoObs
    /\ bases = {}
    /\ daily = {}
    /\ view = NoReply

NextSeats ==
    \/ \E s \in Slots, c \in 0..MaxCap : UpdateDailyTimeslot(s, c)
    \/ \E s \in Slots : SlotStatus(s)
    \/ DayOverview
    \/ SelectorGet
    \/ HoursGet

SpecSeats == InitSeats /\ [][NextSeats]_vars

\* ------------------------------------------------------------ two gyms
\* the gym of each member (GymUser.gym, which views.home puts in the
\* session) and the gym of each daily timeslot
MemberGym == [u1 |-> "g1", u2 |-> "g2"]
SlotGym == [A |-> "g1", B |-> "g2"]

\* views.selector (POST) of member u with slot_id s, run alone: the slot is
\* loaded by its primary key, whatever its gym; the signup rows carry the gym
SelectorPost(u, s) ==
    LET gym == MemberGym[u]
        day == DailyRows[s].slot_date
        existing == {x \in signups :
                       x.gym = gym /\ x.user = u /\ x.slot_date = day}
        per == views_current_period_for(gymusers[u].join_day, today)
        enrolled == Cardinality({x \in signups : x.slot = s})
        new == [user |-> u, slot |-> s, slot_date |-> day, gym |-> gym]
    IN /\ IF existing # {} /\ \A x \in existing : x.slot = s
          THEN /\ signups' = signups \ existing
               /\ view' = Reply("selector", u, FALSE, MsgSelectorCancelled)
          ELSE IF per.raised
          THEN /\ signups' = signups
               /\ view' = Reply("selector", u, TRUE, None)
          ELSE IF ~PaymentCovers(u, per.start, per.end)
          THEN /\ signups' = signups
               /\ view' = Reply("selector", u, FALSE, MsgUnpaid)
          ELSE IF enrolled >= slots[s].capacity
          THEN /\ signups' = signups
               /\ view' = Reply("selector", u, FALSE, MsgFull)
          ELSE /\ signups' = (signups \ existing) \cup {new}
               /\ view' = Reply("selector", u, FALSE, MsgJoined)
       /\ UNCHANGED <<gymusers, today, clock, slots, payments, log, req, last,
                      started, adminOps, hist, obs, bases, daily>>

InitTenancy ==
    /\ gymusers = GymUsers("member")
    /\ today \in Todays
    /\ clock = FirstInstant
    /\ slots = [s \in Slots |-> [capacity |-> MaxCap, status |-> "open"]]
    /\ signups = {}
    /\ payments \in SUBSET {PaymentOf(u) : u \in Users}
    /\ log = <<>>
    /\ req = [r \in Reqs |-> IdleReq]
    /\ last = NoOutcome
    /\ started = 0
    /\ adminOps = 0
    /\ hist = [creates |-> 0, cancels |-> 0]
    /\ obs = NoObs
    /\ bases = {}
    /\ daily = {}
    /\ view = NoReply

NextTenancy ==
    \/ \E u \in Users, s \in Slots : SelectorPost(u, s)
    \/ \E s \in Slots, c \in 0..MaxCap : UpdateDailyTimeslot(s, c)

SpecTenancy == InitTenancy /\ [][NextTenancy]_vars

\* ------------------------------------------------------------ properties
\* request r ends in this step
Ends(r) == req[r].pc # "idle" /\ req'[r].pc = "idle"

\* request r moves in this step
Moves(r) == req'[r] # req[r]

\* the start of slot s, in minutes
StartOf(s) == slot_start_dt(s).at

\* the committed signups of slot s
EnrolledIn(s) == Cardinality({x \in signups : x.slot = s})

\* C1: in every committed state, whatever the requests and their
\* interleaving, each member has 0 or 1 signup rows per calendar day
C1_OneSignupPerDay ==
    \A x \in signups, y \in signups :
        (x.user = y.user /\ x.slot_date = y.slot_date) => x = y

\* a member holds a signup while a second creation of theirs for the same
\* day has been refused by the store
C1_Witness ==
    /\ last.raised = "IntegrityError"
    /\ \E u \in Users : Cardinality(SameDayRows(signups, u, 0)) = 1

\* C2: in every committed state no slot has more signups than its capacity,
\* also when several members join one slot concurrently
C2_NoOverbooking ==
    \A s \in Slots : EnrolledIn(s) <= slots[s].capacity

\* C3: a request that is rejected (it returns no success message and raises
\* nothing) returns a reason and leaves the signup rows and the audit log
\* exactly as they were
C3_RejectionWritesNothing ==
    [][\A r \in Reqs :
          (Ends(r) /\ last'.success = None /\ last'.raised = None)
              => (last'.error # None /\ signups' = signups /\ log' = log)]_vars

\* a capacity rejection of a member who holds a signup on another slot
C3_Witness ==
    /\ last.error = MsgFull
    /\ \E x \in signups, y \in signups : x.user # y.user /\ x.slot # y.slot
    /\ log # <<>>

\* the request rec run alone on the committed signups S: the signups it
\* leaves and what it returns or raises
SerialRun(S, rec) ==
    LET error == IF rec.entry = "execute"
                 THEN can_use_slot(rec.is_admin, rec.now, rec.slot, rec.status)
                 ELSE None
        locked == [rec EXCEPT !.pc = "locked",
                     !.existing = SameDayRows(S, rec.user,
                                              DailyRows[rec.slot].slot_date)]
        d == IF error # None THEN Returned(rec, None, error)
             ELSE IF rec.entry = "execute"
             THEN ExecuteBranch(locked, S, {}, {})
             ELSE SelectorBranch(locked, S, {}, {})
    IN [signups |-> IF d.kind = "raise" THEN S
                    ELSE (S \ d.rec.dels) \cup d.rec.ins,
        out |-> IF d.kind = "go" THEN Outcome(d.rec.success, None, None)
                ELSE d.out]

\* the two observed requests have ended
BothEnded == obs.tracking /\ \A r \in Reqs : obs.outs[r] # NoOutcome

\* C4: two concurrent requests of one member for one day return what they
\* return, and leave the signups they leave, when run one after the other
\* in some order, whether or not the member has a signup of that day
C4_SameKeySerialized ==
    BothEnded =>
        \E first \in Reqs :
            LET second == CHOOSE r \in Reqs : r # first
                a == SerialRun(obs.pre, obs.reqs[first])
                b == SerialRun(a.signups, obs.reqs[second])
            IN /\ a.out = obs.outs[first]
               /\ b.out = obs.outs[second]
               /\ b.signups = signups

\* C5: a signup creation of the engine that loses a unique-constraint race
\* ends as a rejection with a reason: the IntegrityError never leaves the
\* operation
C5_IntegrityErrorCaught ==
    [][\A r \in Reqs :
          (Ends(r) /\ req[r].entry = "execute")
              => last'.raised # "IntegrityError"]_vars

\* a member who is not an administrator holds a signup on the slot
\* requested and the engine has read it
CancelRequest(r) ==
    /\ req[r].pc = "locked" /\ req[r].entry = "execute"
    /\ ~req[r].is_admin /\ IsCancel(req[r])

\* C6: a member who is not an administrator and requests the slot they hold
\* is rejected from 30 minutes before its start on (that instant included)
\* and the signup remains; before that the signup is deleted
C6_CancelCutoff ==
    [][\A r \in Reqs :
          /\ (CancelRequest(r) /\ Moves(r)) =>
                IF req[r].now >= StartOf(req[r].slot) - 30
                THEN /\ Ends(r)
                     /\ last'.success = None /\ last'.error # None
                     /\ req[r].existing \subseteq signups'
                ELSE /\ req'[r].pc = "written"
                     /\ req'[r].dels = req[r].existing /\ req'[r].ins = {}
          /\ (req[r].pc = "written" /\ req[r].entry = "execute"
                /\ req[r].ins = {} /\ Ends(r)) =>
                (signups' = signups \ req[r].dels /\ last'.error = None)]_vars

\* a cancellation asked exactly 30 minutes before the start has been
\* rejected and the signup is still there
C6_Witness ==
    /\ last.error = MsgCancelLate
    /\ clock = StartOf("A") - 30
    /\ \E x \in signups : x.slot = "A"

\* the policy gates of a join or switch let the request through
JoinGatesPass(rec) ==
    rec.entry = "execute" =>
        (can_join(rec.is_admin, rec.now, rec.slot) = None
            /\ SwitchError(rec) = None)

\* C7: a join or switch of a member without a payment covering the current
\* period is rejected with the payment reason and writes nothing; checked
\* for the members who have no payment at all
C7_UnpaidRejected ==
    [][\A r \in Reqs :
          (/\ req[r].pc = "locked" /\ Moves(r)
           /\ ~IsCancel(req[r]) /\ JoinGatesPass(req[r])
           /\ \A p \in payments : p.user # req[r].user)
              => (/\ Ends(r) /\ last'.error = MsgUnpaid
                  /\ signups' = signups /\ log' = log)]_vars

\* the engine has done the writes of a switch
Switching(r) ==
    /\ req[r].pc = "written" /\ req[r].entry = "execute"
    /\ req[r].dels # {} /\ req[r].ins # {}

\* C8: a successful switch from A to B deletes the signup on A, creates the
\* one on B and appends exactly one audit event, a group_join for B
C8_SwitchLogsOneJoin ==
    [][\A r \in Reqs :
          (Switching(r) /\ Ends(r)) =>
              /\ \A x \in req[r].existing : x.slot # req[r].slot
              /\ signups' = (signups \ req[r].existing) \cup
                    {Row(req[r].user, req[r].slot,
                         DailyRows[req[r].slot].slot_date)}
              /\ Len(log') = Len(log) + 1
              /\ SubSeq(log', 1, Len(log)) = log
              /\ log'[Len(log')].event_type = "group_join"
              /\ log'[Len(log')].group_title = req[r].slot
              /\ log'[Len(log')].actor = req[r].user]_vars

\* a switch is about to commit
C8_Witness == \E r \in Reqs : Switching(r) /\ req[r].existing \subseteq signups

\* the committed audit events of a type
CountEvents(type) ==
    Cardinality({i \in 1..Len(log) : log[i].event_type = type})

\* C9: in every committed state there are as many group_join events as
\* signup creations the engine committed and as many group_leave events as
\* cancellations it committed
C9_EventsMatchMutations ==
    /\ CountEvents("group_join") = hist.creates
    /\ CountEvents("group_leave") = hist.cancels

\* creations and cancellations are committed, and a creation was rolled back
C9_Witness ==
    /\ hist.creates >= 1 /\ hist.cancels >= 1
    /\ last.raised = "IntegrityError"

\* C10: the capacity the gate of a join compares with is read once the lock
\* is held: a capacity committed before the lock is acquired is the one used
C10_CapacityReadAfterLock ==
    [][\A r \in Reqs :
          (req[r].pc # "locked" /\ req'[r].pc = "locked")
              => req'[r].capacity = slots[req[r].slot].capacity]_vars

\* the observed request, what it returned and whether it has ended
TheRequest == obs.reqs[1]
TheOutcome == obs.outs[1]
Done == obs.tracking /\ TheOutcome # NoOutcome

\* the observed request was rejected with a reason and nothing was written
RejectedUntouched ==
    /\ TheOutcome.success = None /\ TheOutcome.raised = None
    /\ TheOutcome.error # None
    /\ signups = obs.pre /\ log = JoinsOf(obs.pre)

\* the member of the observed request held its slot when it was made
HeldTarget ==
    Row(TheRequest.user, TheRequest.slot,
        DailyRows[TheRequest.slot].slot_date) \in obs.pre

\* C11: a request of the engine, of a member or of the administrator, that
\* names a slot that is not open or has no start time is rejected with the
\* policy reason and changes nothing, the cancellation of a signup on a slot
\* closed since included
C11_UnusableSlotRejected ==
    (Done /\ (slots[TheRequest.slot].status # "open"
                \/ ~DailyRows[TheRequest.slot].has_time))
        => (RejectedUntouched
              /\ TheOutcome.error \in {MsgUnavailable, MsgNoSchedule})

\* a member asked to cancel a signup on a slot closed or cancelled since
C11_Witness ==
    /\ Done /\ HeldTarget /\ ~TheRequest.is_admin
    /\ slots[TheRequest.slot].status \in {"closed", "cancelled"}
    /\ DailyRows[TheRequest.slot].has_time

C13_JoinCutoff ==
    (Done /\ ~TheRequest.is_admin /\ ~HeldTarget
          /\ DailyRows[TheRequest.slot].has_time) =>
        IF TheRequest.now >= StartOf(TheRequest.slot) - 60
        THEN RejectedUntouched
        ELSE TheOutcome.error # MsgJoinLate

\* a member asked to join an open slot exactly one hour before its start
C13_Witness ==
    /\ Done /\ ~TheRequest.is_admin /\ ~HeldTarget
    /\ slots[TheRequest.slot].status = "open"
    /\ TheRequest.now = StartOf(TheRequest.slot) - 60
    /\ TheOutcome.error = MsgJoinLate

\* the signup the member of the observed request held on another slot whose
\* start is not set or is at most one hour away
LateElsewhere ==
    {x \in obs.pre :
        /\ x.user = TheRequest.user /\ x.slot # TheRequest.slot
        /\ \/ ~DailyRows[x.slot].has_time
           \/ TheRequest.now >= StartOf(x.slot) - 60}

\* C14: when a member who is not an administrator and is enrolled in A asks
\* for another slot B of the day while A has no start time or starts in one
\* hour or less, the request is rejected and the signups of A and B are as
\* they were
C14_SwitchCutoff ==
    (Done /\ ~TheRequest.is_admin /\ LateElsewhere # {}) => RejectedUntouched

\* the switch was refused by the gate on the current slot: exactly one hour
\* before its start, or because it has no start time
C14_Witness ==
    /\ Done /\ ~TheRequest.is_admin
    /\ \E x \in LateElsewhere :
           DailyRows[x.slot].has_time /\ TheRequest.now = StartOf(x.slot) - 60
    /\ TheOutcome.error = MsgSwitchLate

\* C15: a member who holds a signup on S and asks for S while the slot is
\* usable and the cancel time gate allows it has the signup deleted, with or
\* without a payment covering the current period
C15_CancelNeedsNoPayment ==
    (/\ Done /\ HeldTarget
     /\ slots[TheRequest.slot].status = "open"
     /\ DailyRows[TheRequest.slot].has_time
     /\ TheRequest.is_admin
           \/ TheRequest.now < StartOf(TheRequest.slot) - 30)
        => /\ TheOutcome.success = MsgCancelled /\ TheOutcome.error = None
           /\ signups = obs.pre \ {Row(TheRequest.user, TheRequest.slot,
                                       DailyRows[TheRequest.slot].slot_date)}

\* a member without any payment has cancelled
C15_Witness ==
    /\ Done /\ HeldTarget /\ ~TheRequest.is_admin
    /\ payments = {}
    /\ TheOutcome.success = MsgCancelled

\* ---- payments and periods (SpecLedger)
PaidCalls == {"_has_active_payment", "user_has_paid_current_period"}
JoinDayOf(u) == gymusers[u].join_day
CurrentOf(u) == current_period_for(JoinDayOf(u), today)

\* one payment of member u contains the period from ps to pe
SingleCover(u, ps, pe) ==
    \E p \in payments :
        /\ p.user = u
        /\ DateLE(p.period_start, ps)
        /\ DateLE(pe, p.period_end)

AnchorStart(a, ref) ==
    IF ref.d >= a THEN Date(ref.y, ref.m, a)
    ELSE IF ref.m = 1 THEN Date(ref.y - 1, 12, a)
    ELSE Date(ref.y, ref.m - 1, a)
OneMonthAfter(d) ==
    LET y == IF d.m = 12 THEN d.y + 1 ELSE d.y
        m == IF d.m = 12 THEN 1 ELSE d.m + 1
    IN Date(y, m, Min(d.d, monthrange(y, m)))

\* C17: the current period starts on the anchor day of the reference date's
\* month when ref.day >= anchor, else on the anchor day of the previous
\* month, and ends one calendar month after its start; anchor 15 gives
\* (2023-12-15, 2024-01-15) at 2024-01-10 and (2024-01-15, 2024-02-15) at
\* 2024-01-20.
C17_PeriodFormula ==
    /\ (view.call = "current_period_for" /\ ~view.raised)
          => view.value =
                <<AnchorStart(JoinDayOf(view.user), today),
                  OneMonthAfter(AnchorStart(JoinDayOf(view.user), today))>>
    /\ (view.call = "users" /\ ~view.raised)
          => \A row \in view.value :
                row.next_payment_date =
                    OneMonthAfter(AnchorStart(JoinDayOf(row.user), today))
    /\ (view.call = "current_period_for" /\ JoinDayOf(view.user) = 15
        /\ today = Date(2024, 1, 10))
          => /\ ~view.raised
             /\ view.value = <<Date(2023, 12, 15), Date(2024, 1, 15)>>
    /\ (view.call = "current_period_for" /\ JoinDayOf(view.user) = 15
        /\ today = Date(2024, 1, 20))
          => /\ ~view.raised
             /\ view.value = <<Date(2024, 1, 15), Date(2024, 2, 15)>>

\* the period of anchor 15 has been computed on 2024-01-10, before the anchor
\* day, and it began in the previous year
C17_Witness ==
    /\ view.call = "current_period_for" /\ ~view.raised
    /\ JoinDayOf(view.user) = 15 /\ today = Date(2024, 1, 10)
    /\ view.value[1] = Date(2023, 12, 15)

\* C18: the current period is computed for every anchor day and reference
\* date without raising, the anchor being clamped to the last day of a month
\* that lacks it; anchor 31 at 2024-02-15 gives (2024-01-31, 2024-02-29).
C18_PeriodTotal ==
    /\ view.call = "current_period_for" => ~view.raised
    /\ (view.call = "current_period_for" /\ ~view.raised
        /\ JoinDayOf(view.user) = 31 /\ today = Date(2024, 2, 15))
          => view.value = <<Date(2024, 1, 31), Date(2024, 2, 29)>>

\* ---- the catalogue (SpecCatalog)
\* the days base_hours publishes for an action
PublishDays(action) ==
    {d \in {AddDays(today, Offsets(action)[k]) :
            k \in 1..Len(Offsets(action))} : weekday(d) < 5}

\* C19: a materialization repeated for the same date with the base templates
\* unchanged creates no row, and after any number of calls there is at most
\* one DailyTimeslot per (date, title).
C19_Idempotent ==
    [][/\ (/\ view.call = "base_hours" /\ ~view.raised
           /\ view'.call = "base_hours" /\ view'.action = view.action)
             => /\ ~view'.raised
                /\ view'.value.created = 0
                /\ daily' = daily
       /\ \A x, y \in daily' :
             (x.slot_date = y.slot_date /\ x.title = y.title) => x = y]_vars

\* a call has found every row it would publish and created none
C19_Witness ==
    /\ view.call = "base_hours" /\ ~view.raised
    /\ view.value.created = 0 /\ view.value.skipped > 0
    /\ daily # {}

\* C20: for each active base template and each day published, a
\* DailyTimeslot of that date and title that exists already, whatever base it
\* refers to, is left as it is and no creation is attempted; otherwise a row
\* with the base's title and capacity and status open is created; inactive
\* templates produce no rows.
C20_KeyedByTitle ==
    [][view'.call = "base_hours"
          => /\ ~view'.raised
             /\ \A d \in PublishDays(view'.action), b \in bases :
                   b.is_active =>
                      IF \E x \in daily :
                            x.slot_date = d /\ x.title = b.title
                      THEN \A x \in daily' :
                              (x.slot_date = d /\ x.title = b.title)
                                 => x \in daily
                      ELSE \E x \in daily' :
                              /\ x.slot_date = d /\ x.title = b.title
                              /\ x.capacity = b.capacity
                              /\ x.status = "open"
             /\ \A x \in daily' \ daily :
                   \E b \in bases : b.is_active /\ b.title = x.title]_vars

\* the Saturdays and Sundays within a week of the dates of today
WeekendDays ==
    {Date(2024, 1, 13), Date(2024, 1, 14), Date(2024, 3, 16),
     Date(2024, 3, 17)}

SeatCalls == {"slot_status", "day_overview", "selector", "hours"}

\* C22: the seats reported as available for a slot are capacity - enrolled
\* floored at 0, never negative, in slot_status, day_overview, the member
\* selector and the admin hours view.
C22_AvailableFloored ==
    view.call \in SeatCalls
       => \A row \in view.value :
             /\ row.available >= 0
             /\ row.available = IF row.capacity >= row.enrolled
                                THEN row.capacity - row.enrolled ELSE 0

\* ---- the outcome of a transition (Spec)
\* C23: a transition of the engine gives its caller a pair (success, error)
\* with exactly one of the two populated, never both and never neither, on
\* every path through the engine.
C23_ExactlyOnePopulated ==
    [][\A r \in Reqs :
          (Ends(r) /\ req[r].entry = "execute")
              => ((last'.success = None) # (last'.error = None))]_vars

\* the same, for the transitions that return
C23_ReturnsExactlyOne ==
    [][\A r \in Reqs :
          (Ends(r) /\ req[r].entry = "execute" /\ last'.raised = None)
              => ((last'.success = None) # (last'.error = None))]_vars

\* ---- progress of the transitions (SpecContend)
\* C24: under fair scheduling of the requests and of the store's lock
\* manager every started transition ends, by a commit or by a rollback; no
\* set of concurrent transitions stays blocked on row locks.
C24_EveryTransitionEnds ==
    \A r \in Reqs : (req[r].pc # "idle") ~> (req[r].pc = "idle")

\* a request waits for a row lock or for the insert of another request
C24_Witness ==
    \E r \in Reqs, o \in Reqs :
        /\ r # o
        /\ req[r].pc \in {"waiting", "blocked"}
        /\ req[o].pc \in {"locked", "written"}

\* ---- the order of the gates (SpecPolicy)
\* the gates of the observed request, from what the store held when it
\* was made
TimeGated == ~TheRequest.is_admin
UseFails ==
    \/ slots[TheRequest.slot].status # "open"
    \/ ~DailyRows[TheRequest.slot].has_time
    \/ TimeGated /\ TheRequest.now >= StartOf(TheRequest.slot)
CancelFails == TimeGated /\ TheRequest.now >= StartOf(TheRequest.slot) - 30
JoinFails == TimeGated /\ TheRequest.now >= StartOf(TheRequest.slot) - 60
SwitchFails == TimeGated /\ LateElsewhere # {}
\* the member's current period cannot be computed, or no payment covers it
PeriodFails == CurrentOf(TheRequest.user).raised
Unpaid ==
    ~SingleCover(TheRequest.user, CurrentOf(TheRequest.user).start,
                 CurrentOf(TheRequest.user).end)
Full ==
    Cardinality({x \in obs.pre : x.slot = TheRequest.slot})
        >= slots[TheRequest.slot].capacity

DateBefore(a, b) == DateLE(a, b) /\ a # b

\* C26: whenever the current period of an anchor day and a reference date is
\* returned, the reference date lies inside it: start <= ref < end, also for
\* the anchors 29 to 31 at the end of a month (anchor 31 on the 30th of a
\* month of 30 days).
C26_ReferenceInsidePeriod ==
    /\ (view.call = "current_period_for" /\ ~view.raised)
          => /\ DateLE(view.value[1], today)
             /\ DateBefore(today, view.value[2])
    /\ (view.call = "users" /\ ~view.raised)
          => \A row \in view.value : DateBefore(today, row.next_payment_date)

\* ---- signups and the status of their slot (SpecClose)
\* C27: no entry point commits a new signup on a slot that is not open at
\* that moment, also when close_slot or cancel_slot runs while the join is
\* in flight.
C27_JoinsOnlyOpenSlots ==
    [][\A x \in signups' \ signups : slots'[x.slot].status = "open"]_vars

\* ---- the denormalized columns of a signup (SpecTenancy)
\* C28: every signup row has the slot_date of the DailyTimeslot it refers to
\* and the gym of that DailyTimeslot, after any sequence of joins, switches
\* and slot updates.
C28_SignupMatchesSlot ==
    \A x \in signups :
        /\ x.slot_date = DailyRows[x.slot].slot_date
        /\ x.gym = SlotGym[x.slot]

\* the member of request r held slot s, another slot of the day of the slot
\* the request names, and the request ends with a join
SwitchFrom(r, s) ==
    /\ Ends(r)
    /\ last'.success = MsgJoined
    /\ s # req[r].slot
    /\ Row(req[r].user, s, DailyRows[req[r].slot].slot_date) \in signups

FrameKept(r) ==
    LET m == req[r].user
        d == DailyRows[req[r].slot].slot_date
        changed == (signups \ signups') \cup (signups' \ signups)
        count(S, s) == Cardinality({x \in S : x.slot = s})
    IN /\ \A x \in changed : x.user = m /\ x.slot_date = d
       /\ \A a \in FrameSlots : SwitchFrom(r, a) =>
             \A s \in FrameSlots :
                count(signups', s) = count(signups, s)
                    + (IF s = req[r].slot THEN 1 ELSE 0)
                    - (IF s = a THEN 1 ELSE 0)

\* C29: the step that ends a request of member m naming a slot of day d
\* changes no signup but m's own of day d: the signups of the other members
\* and m's signups of the other days stay as they were; when it is a switch
\* from slot a to the slot named, a has one signup less, the slot named one
\* more and every other slot as many as before
C29_FrameOfTransition ==
    [][\A r \in Reqs : Ends(r) => FrameKept(r)]_vars

\* a switch from A to B has been committed while the member holds a signup
\* of the next day and the other member holds signups too
C29_Witness ==
    \E r \in Reqs :
        LET m == obs.reqs[r].user
        IN /\ obs.tracking
           /\ obs.reqs[r].slot = "B"
           /\ obs.outs[r].success = MsgJoined
           /\ Row(m, "A", 0) \in obs.pre
           /\ Row(m, "B", 0) \in signups
           /\ Row(m, "A", 0) \notin signups
           /\ Row(m, "T", 1) \in signups
           /\ \E x \in signups : x.user # m

\* the two observed requests are of one member and name one slot
SameTarget ==
    /\ obs.tracking
    /\ obs.reqs[1].user = obs.reqs[2].user
    /\ obs.reqs[1].slot = obs.reqs[2].slot

\* the member of the observed requests holds no signup of the day in the
\* signups S, or holds the slot the requests name
HoldsNone(S) ==
    SameDayRows(S, obs.reqs[1].user,
                DailyRows[obs.reqs[1].slot].slot_date) = {}
HoldsTarget(S) ==
    Row(obs.reqs[1].user, obs.reqs[1].slot,
        DailyRows[obs.reqs[1].slot].slot_date) \in S

\* the request run twice in a row by a member without a signup of the day,
\* both runs successful, leaves the signups it found
JoinThenSameAgain ==
    (SameTarget /\ HoldsNone(obs.pre)) =>
        LET a == SerialRun(obs.pre, obs.reqs[1])
            b == SerialRun(a.signups, obs.reqs[2])
        IN (a.out.success # None /\ b.out.success # None)
               => (HoldsTarget(a.signups) /\ b.signups = obs.pre)

\* two requests in flight together for the slot the member holds have
\* ended and one of them has cancelled the signup: the member does not
\* hold the slot
CancelTwiceStaysOut ==
    (/\ SameTarget /\ HoldsTarget(obs.pre) /\ BothEnded
     /\ \E r \in Reqs :
           obs.outs[r].success \in {MsgCancelled, MsgSelectorCancelled})
        => ~HoldsTarget(signups)

\* C30: the request is a toggle on the slot it names: made twice in a row
\* by a member without a signup of the day, both times with success, it
\* leaves the signups as they were; and two cancel requests in flight
\* together, of a member who holds the slot, never end with the member
\* holding the slot again
C30_ToggleOnTarget == JoinThenSameAgain /\ CancelTwiceStaysOut

====
